---- MODULE Spec2Model ----
(***************************************************************************)
(* One Runge-Kutta substep of the 1D third-order discontinuous Galerkin    *)
(* solver, sailfish/solvers/scdg_1d.c.                                     *)
(*                                                                         *)
(* The C doubles are modelled as exact decimal numbers: every literal of   *)
(* the source is taken digit for digit, and +, -, * and / are exact (no    *)
(* rounding, no overflow, no NaN).  A number is a record                   *)
(*     [k |-> fractional limbs, n |-> limbs, little-endian, s |-> 0 or -1] *)
(* in Base-complement form: its value is                                   *)
(*     (SUM n[i] * Base^(i-1)  +  s * Base^Len(n)) / Base^k                *)
(* and the form is canonical, so record equality is numerical equality.    *)
(***************************************************************************)
EXTENDS Integers, Sequences, FiniteSets, TLC

VARIABLES
    PDE,        \* 0 for linear advection, 1 for Burgers
    WAVESPEED,  \* the global wavespeed (advection)
    dx,         \* the uniform cell width
    num_zones,  \* number of zones, not including guard zones
    rk_param,   \* Runge-Kutta parameter
    dt,         \* time step
    u_rk,       \* the snapshot buffer, a 0-based array of numbers
    u_rd,       \* the read-state buffer
    u_wr,       \* the write-state buffer
    u_rd2,      \* a second call's read-state buffer (two-call specification)
    u_wr2,      \* a second call's write-state buffer
    pc,         \* "loop" | "returned" | "ub" | "pure" | "applied"
    done,       \* the loop indices whose body has run
    rlog,       \* <<i, buffer, zone>>: iteration i loaded that zone of that buffer
    wlog,       \* <<i, buffer, zone>>: iteration i stored to that zone of that buffer
    mem0,       \* the three buffers as they were when the call started
    arg_ul, arg_ur, \* arguments of a stand-alone call of upwind
    fnum        \* its result

vars == <<PDE, WAVESPEED, dx, num_zones, rk_param, dt, u_rk, u_rd, u_wr,
          u_rd2, u_wr2, pc, done, rlog, wlog, mem0, arg_ul, arg_ur, fnum>>

----------------------------------------------------------------------------
(* Exact decimal arithmetic *)

Base == 10 ^ 3

RECURSIVE CarryFrom(_, _, _, _)
CarryFrom(c, i, cin, acc) ==
    IF i > Len(c)
    THEN IF cin = 0 \/ cin = -1
         THEN [n |-> acc, s |-> cin]
         ELSE CarryFrom(c, i, cin \div Base, Append(acc, cin % Base))
    ELSE LET t == c[i] + cin
         IN  CarryFrom(c, i + 1, t \div Base, Append(acc, t % Base))

RECURSIVE StripHigh(_, _)
StripHigh(n, s) ==
    IF n # <<>> /\ n[Len(n)] = (IF s = 0 THEN 0 ELSE Base - 1)
    THEN StripHigh(SubSeq(n, 1, Len(n) - 1), s)
    ELSE n

RECURSIVE LowZeros(_, _, _)
LowZeros(n, k, j) ==
    IF j < k /\ j < Len(n) /\ n[j + 1] = 0 THEN LowZeros(n, k, j + 1) ELSE j

\* The canonical number with signed coefficients c (little-endian) and k
\* fractional limbs.
Norm(c, k) ==
    LET r  == CarryFrom(c, 1, 0, <<>>)
        hi == StripHigh(r.n, r.s)
        z  == LowZeros(hi, k, 0)
    IN  IF hi = <<>> /\ r.s = 0
        THEN [k |-> 0, n |-> <<>>, s |-> 0]
        ELSE [k |-> k - z, n |-> SubSeq(hi, z + 1, Len(hi)), s |-> r.s]

Coef(a) == Append(a.n, a.s)

RECURSIVE Zeros(_)
Zeros(j) == IF j = 0 THEN <<>> ELSE Append(Zeros(j - 1), 0)

Shifted(a, k) == Zeros(k - a.k) \o Coef(a)

RECURSIVE AddCoef(_, _, _, _)
AddCoef(x, y, i, acc) ==
    IF i > Len(x) /\ i > Len(y)
    THEN acc
    ELSE AddCoef(x, y, i + 1,
                 Append(acc, (IF i <= Len(x) THEN x[i] ELSE 0)
                             + (IF i <= Len(y) THEN y[i] ELSE 0)))

RECURSIVE NegCoef(_, _, _)
NegCoef(x, i, acc) ==
    IF i > Len(x) THEN acc ELSE NegCoef(x, i + 1, Append(acc, -x[i]))

RECURSIVE ConvAt(_, _, _, _, _)
ConvAt(x, y, m, i, acc) ==
    IF i > Len(x) \/ i > m
    THEN acc
    ELSE ConvAt(x, y, m, i + 1,
                IF m + 1 - i <= Len(y) THEN acc + x[i] * y[m + 1 - i] ELSE acc)

RECURSIVE Conv(_, _, _, _)
Conv(x, y, m, acc) ==
    IF m > Len(x) + Len(y) - 1
    THEN acc
    ELSE Conv(x, y, m + 1, Append(acc, ConvAt(x, y, m, 1, 0)))

\* The integer v, and the decimal literal  sign * ip.f1f2f3f4f5  whose
\* fraction is written in five groups of three digits.
Num(v) == Norm(<<v>>, 0)
Lit(sign, ip, f) ==
    Norm(<<sign * f[5], sign * f[4], sign * f[3], sign * f[2], sign * f[1],
           sign * ip>>, 5)

\* 0.0, 1.0, 2.0 and 0.5 in canonical form.
Zero == [k |-> 0, n |-> << >>, s |-> 0]
One  == [k |-> 0, n |-> << 1 >>, s |-> 0]
Two  == [k |-> 0, n |-> << 2 >>, s |-> 0]
Half == [k |-> 1, n |-> << Base \div 2 >>, s |-> 0]

Sgn(a) == IF a.s = -1 THEN -1 ELSE IF a.n = <<>> THEN 0 ELSE 1

Add(a, b) ==
    IF a = Zero THEN b
    ELSE IF b = Zero THEN a
    ELSE LET k == IF a.k >= b.k THEN a.k ELSE b.k
         IN  Norm(AddCoef(Shifted(a, k), Shifted(b, k), 1, <<>>), k)

Neg(a) == Norm(NegCoef(Coef(a), 1, <<>>), a.k)

Sub(a, b) == Add(a, Neg(b))

Mul(a, b) ==
    IF a = Zero \/ b = Zero THEN Zero
    ELSE IF a = One THEN b
    ELSE IF b = One THEN a
    ELSE Norm(Conv(Coef(a), Coef(b), 1, <<>>), a.k + b.k)

\* a / b for the divisors the model draws: 1, 2 and their negatives, whose
\* reciprocals are finite decimals, so the quotient is exact.
Recip(b) ==
    CASE b = One -> One
      [] b = Two -> Half
      [] Neg(b) = One -> Neg(One)
      [] Neg(b) = Two -> Neg(Half)

Div(a, b) == Mul(a, Recip(b))

----------------------------------------------------------------------------
(* scdg_1d.c, lines 1-47: the build constants, flux, upwind, dot *)

NPOLY == 3
NUM_POINTS == 3

flux(ux) ==
    CASE PDE = 0 -> Mul(WAVESPEED, ux)
      [] PDE = 1 -> Mul(Mul(Half, ux), ux)

\* upwind with the sign tests of the Burgers branch made non-strict.
upwind_nonstrict(ul, ur) ==
    CASE PDE = 0 -> IF Sgn(WAVESPEED) > 0 THEN flux(ul) ELSE flux(ur)
      [] PDE = 1 ->
            IF Sgn(ul) >= 0 /\ Sgn(ur) >= 0 THEN flux(ul)
            ELSE IF Sgn(ul) <= 0 /\ Sgn(ur) <= 0 THEN flux(ur)
            ELSE Zero

\* upwind with the advection branch decided by the sign of the left state.
upwind_local(ul, ur) ==
    CASE PDE = 0 -> IF Sgn(ul) > 0 THEN flux(ul) ELSE flux(ur)
      [] PDE = 1 ->
            IF Sgn(ul) > 0 /\ Sgn(ur) > 0 THEN flux(ul)
            ELSE IF Sgn(ul) < 0 /\ Sgn(ur) < 0 THEN flux(ur)
            ELSE Zero

\* upwind with the advection branch taking the downwind state.
upwind_downwind(ul, ur) ==
    CASE PDE = 0 -> IF Sgn(WAVESPEED) > 0 THEN flux(ur) ELSE flux(ul)
      [] PDE = 1 ->
            IF Sgn(ul) > 0 /\ Sgn(ur) > 0 THEN flux(ul)
            ELSE IF Sgn(ul) < 0 /\ Sgn(ur) < 0 THEN flux(ur)
            ELSE Zero

upwind(ul, ur) ==
    CASE PDE = 0 -> IF Sgn(WAVESPEED) > 0 THEN flux(ul) ELSE flux(ur)
      [] PDE = 1 ->
            LET al == ul
                ar == ur
            IN  IF Sgn(al) > 0 /\ Sgn(ar) > 0 THEN flux(ul)
                ELSE IF Sgn(al) < 0 /\ Sgn(ar) < 0 THEN flux(ur)
                ELSE Zero

\* C arrays are 0-based; the tables below are tuples.
At(t, i) == t[i + 1]

RECURSIVE dotFrom(_, _, _, _)
dotFrom(u, q, i, sum) ==
    IF i < NPOLY THEN dotFrom(u, q, i + 1, Add(sum, Mul(u[i], At(q, i)))) ELSE sum

dot(u, q) == dotFrom(u, q, 0, Zero)

----------------------------------------------------------------------------
(* scdg_1d.c, lines 61-82: the quadrature and basis tables *)

ng == 1

g == << Lit(-1, 0, <<774, 596, 669, 241, 483>>), Zero,
        Lit( 1, 0, <<774, 596, 669, 241, 483>>) >>

w == << Lit(1, 0, <<555, 555, 555, 555, 556>>),
        Lit(1, 0, <<888, 888, 888, 888, 889>>),
        Lit(1, 0, <<555, 555, 555, 555, 556>>) >>

p == << << One, One, One >>,
        << Lit(-1, 1, <<341, 640, 786, 499, 873>>), Zero,
           Lit( 1, 1, <<341, 640, 786, 499, 873>>) >>,
        << Lit( 1, 0, <<894, 427, 190, 999, 914>>),
           Lit(-1, 1, <<118, 033, 988, 749, 900>>),
           Lit( 1, 0, <<894, 427, 190, 999, 914>>) >> >>

pp == << << Zero, Zero, Zero >>,
         << Lit(1, 1, <<732, 050, 807, 568, 877>>),
            Lit(1, 1, <<732, 050, 807, 568, 877>>),
            Lit(1, 1, <<732, 050, 807, 568, 877>>) >>,
         << Lit(-1, 5, <<196, 152, 422, 706, 629>>), Zero,
            Lit( 1, 5, <<196, 152, 422, 706, 629>>) >> >>

\* Both normals pointing the same way.
nhat_same == << One, One >>

nhat == << Num(-1), One >>

pfl == << One, Lit(-1, 1, <<732, 050, 807, 568, 877>>),
          Lit(1, 2, <<236, 067, 977, 499, 790>>) >>

pfr == << One, Lit(1, 1, <<732, 050, 807, 568, 877>>),
          Lit(1, 2, <<236, 067, 977, 499, 790>>) >>

----------------------------------------------------------------------------
(* scdg_1d.c, lines 84-122: the body of the loop, for loop index i *)

\* &buf[base]: the NPOLY entries of buf from base on, indexed 0..NPOLY-1.
ZoneAt(buf, base) == [l \in 0 .. NPOLY - 1 |-> buf[base + l]]

urd(rd, i) == ZoneAt(rd, NPOLY * (i + ng))
uli(rd, i) == ZoneAt(rd, NPOLY * (i + ng - 1))
\* The right neighbour loaded from the write buffer.
uri_from_wr(rd, i) == ZoneAt(u_wr, NPOLY * (i + ng + 1))
uri(rd, i) == ZoneAt(rd, NPOLY * (i + ng + 1))
urk(rk, i) == ZoneAt(rk, NPOLY * (i + ng))
\* The store address without the guard-zone offset.
uwr_noguard(i) == NPOLY * i
uwr(i) == NPOLY * (i + ng)

uimh_l(rd, i) == dot(uli(rd, i), pfr)
uimh_r(rd, i) == dot(urd(rd, i), pfl)
uiph_l(rd, i) == dot(urd(rd, i), pfr)
uiph_r(rd, i) == dot(uri(rd, i), pfl)
fimh(rd, i) == upwind(uimh_l(rd, i), uimh_r(rd, i))
\* The right-face flux with its two states exchanged.
fiph_swapped(rd, i) == upwind(uiph_r(rd, i), uiph_l(rd, i))
fiph(rd, i) == upwind(uiph_l(rd, i), uiph_r(rd, i))

RECURSIVE uxFrom(_, _, _, _)
uxFrom(u, n, l, ux) ==
    IF l < NPOLY
    THEN uxFrom(u, n, l + 1, Add(ux, Mul(u[l], At(At(p, l), n))))
    ELSE ux

\* lines 101-109: the flux at quadrature point n
fx(rd, i, n) == flux(uxFrom(urd(rd, i), n, 0, Zero))

RECURSIVE udot_vFrom(_, _, _, _)
udot_vFrom(fxs, l, n, acc) ==
    IF n < NUM_POINTS
    THEN udot_vFrom(fxs, l, n + 1,
             Add(acc, Div(Mul(Mul(At(fxs, n), At(At(pp, l), n)), At(w, n)), dx)))
    ELSE acc

\* lines 113-117
udot_v(fxs, l) == udot_vFrom(fxs, l, 0, Zero)

\* line 118
udot_s(fm, fp, l) ==
    Div(Neg(Add(Mul(Mul(fm, At(pfl, l)), At(nhat, 0)),
                Mul(Mul(fp, At(pfr, l)), At(nhat, 1)))), dx)

\* line 119
uwr_euler(urd_l, v, s) == Add(urd_l, Mul(Add(v, s), dt))

\* The blend with its two weights exchanged.
uwr_blend_swapped(uwr_l, urk_l) ==
    Add(Mul(rk_param, uwr_l), Mul(Sub(One, rk_param), urk_l))

\* line 120
uwr_blend(uwr_l, urk_l) ==
    Add(Mul(Sub(One, rk_param), uwr_l), Mul(rk_param, urk_l))

\* lines 99-109: fx[0 .. NUM_POINTS-1], as a tuple
RECURSIVE fxFrom(_, _, _, _)
fxFrom(rd, i, n, fxs) ==
    IF n < NUM_POINTS
    THEN fxFrom(rd, i, n + 1, Append(fxs, fx(rd, i, n)))
    ELSE fxs

\* lines 111-121: the values stored to uwr[l .. NPOLY-1], as a tuple
RECURSIVE uwrFrom(_, _, _, _, _, _, _, _)
uwrFrom(rk, rd, i, fm, fp, fxs, l, stored) ==
    IF l < NPOLY
    THEN uwrFrom(rk, rd, i, fm, fp, fxs, l + 1,
             Append(stored,
                    uwr_blend(uwr_euler(urd(rd, i)[l], udot_v(fxs, l),
                                        udot_s(fm, fp, l)),
                              urk(rk, i)[l])))
    ELSE stored

\* The NPOLY values the body stores to uwr[0..NPOLY-1], as a tuple.
ZoneModes(rk, rd, i) ==
    uwrFrom(rk, rd, i, fimh(rd, i), fiph(rd, i), fxFrom(rd, i, 0, << >>),
            0, << >>)

Store(buf, base, vals) ==
    [k \in DOMAIN buf |->
        IF k \in base .. base + NPOLY - 1 THEN vals[k - base + 1] ELSE buf[k]]

----------------------------------------------------------------------------
(* The inputs of a call *)

MaxZones == 2

\* FOR_EACH_1D(n): the loop indices 0 .. n-1, each run once, in any order.
FOR_EACH_1D(n) == 0 .. n - 1

\* The length, in entries, the three buffers are declared with.
Shape(nz) == (nz + 2) * NPOLY

ZoneVals == { << 1, 0, 0 >>, << -5, 1, 1 >> }
UniformVals == { 0, 2, -3 }

\* A buffer of len entries holding the modes of zones, a tuple of NPOLY-tuples
\* of integers (entries past the last zone of the tuple do not exist).
Buffer(zones, len) ==
    [k \in 0 .. len - 1 |-> Num(zones[(k \div NPOLY) + 1][(k % NPOLY) + 1])]

\* The snapshot and the write buffer of the caller: distinct values everywhere.
Snapshot(len) == [k \in 0 .. len - 1 |-> Num(10 + k)]
Unwritten(len) == [k \in 0 .. len - 1 |-> Num(-100 - k)]

Zones(nz) == [1 .. nz + 2 -> ZoneVals]
UniformZones(nz, c) == [z \in 1 .. nz + 2 |-> << c, 0, 0 >>]

PdeWs == { << 0, One >>, << 0, Neg(One) >>, << 1, One >> }
RkVals == { Zero, Half, One }
Steps == { << One, One >>, << Half, Two >> }

\* Configurations the contract declares invalid, one defect at a time:
\* dt <= 0, dx < 0, rk_param outside [0,1].
BadSteps == { << Zero, One >>, << Num(-1), One >>, << One, Num(-1) >> }
BadRk == { Num(2), Neg(Half) }
Short == NPOLY + 1

Call(pw, rk, step, nz, zones, lrk, lrd, lwr) ==
    /\ PDE = pw[1] /\ WAVESPEED = pw[2]
    /\ rk_param = rk
    /\ dt = step[1] /\ dx = step[2]
    /\ num_zones = nz
    /\ u_rk = Snapshot(lrk)
    /\ u_rd = Buffer(zones, lrd)
    /\ u_wr = Unwritten(lwr)
    /\ mem0 = [rk |-> u_rk, rd |-> u_rd, wr |-> u_wr]
    /\ pc = "loop"
    /\ done = {} /\ rlog = {} /\ wlog = {}
    /\ arg_ul = Zero /\ arg_ur = Zero /\ fnum = Zero

InitValid ==
    \E nz \in 0 .. MaxZones, pw \in PdeWs, rk \in RkVals, step \in Steps :
        \E zones \in Zones(nz) :
            Call(pw, rk, step, nz, zones, Shape(nz), Shape(nz), Shape(nz))

InitUniform ==
    \E nz \in 1 .. MaxZones, c \in UniformVals, step \in Steps :
        Call(<< 0, One >>, Zero, step, nz, UniformZones(nz, c),
             Shape(nz), Shape(nz), Shape(nz))

InitInvalid ==
    \E nz \in 1 .. MaxZones :
        LET zones == [z \in 1 .. nz + 2 |-> << z, 1, 0 >>]
            len == Shape(nz)
        IN  \/ \E step \in BadSteps :
                  Call(<< 0, One >>, Zero, step, nz, zones, len, len, len)
            \/ \E rk \in BadRk :
                  Call(<< 0, One >>, rk, << One, One >>, nz, zones, len, len, len)
            \/ Call(<< 0, One >>, Zero, << One, One >>, -1, << >>, 0, 0, 0)
            \/ \E b \in { "rk", "rd", "wr" } :
                  Call(<< 0, One >>, Zero, << One, One >>, nz, zones,
                       IF b = "rk" THEN len - Short ELSE len,
                       IF b = "rd" THEN len - Short ELSE len,
                       IF b = "wr" THEN len - Short ELSE len)

Init ==
    /\ InitValid \/ InitUniform \/ InitInvalid
    /\ u_rd2 = << >> /\ u_wr2 = << >>

----------------------------------------------------------------------------
(* scdg_1d_advance_rk *)

BufLen(buf) == Cardinality(DOMAIN buf)

\* Every entry the body of loop index i addresses lies inside its buffer.
InBounds(i) ==
    /\ NPOLY * (i + ng + 1) + NPOLY - 1 < BufLen(u_rd)
    /\ NPOLY * (i + ng) + NPOLY - 1 < BufLen(u_rk)
    /\ NPOLY * (i + ng) + NPOLY - 1 < BufLen(u_wr)

Body(i) ==
    /\ pc = "loop"
    /\ i \notin done
    /\ InBounds(i)
    /\ u_wr' = Store(u_wr, uwr(i), ZoneModes(u_rk, u_rd, i))
    /\ done' = done \cup { i }
    /\ rlog' = rlog \cup { << i, "rd", i + ng - 1 >>, << i, "rd", i + ng >>,
                           << i, "rd", i + ng + 1 >>, << i, "rk", i + ng >> }
    /\ wlog' = wlog \cup { << i, "wr", i + ng >> }
    /\ UNCHANGED << PDE, WAVESPEED, dx, num_zones, rk_param, dt, u_rk, u_rd,
                    u_rd2, pc, mem0, arg_ul, arg_ur, fnum >>

ZoneUpdate(i) == Body(i) /\ UNCHANGED u_wr2

\* The body addresses an entry outside a buffer: undefined behaviour.  The
\* outcomes modelled: the stores that fall inside the write buffer happen with
\* the values computed from whatever the loads returned, or do not happen.
Garbage == { Zero, Num(77) }

OutOfBounds(i) ==
    /\ pc = "loop"
    /\ i \notin done
    /\ ~InBounds(i)
    /\ pc' = "ub"
    /\ \E x \in Garbage, stored \in BOOLEAN :
          u_wr' = [k \in DOMAIN u_wr |->
                      IF stored /\ k \in uwr(i) .. uwr(i) + NPOLY - 1
                      THEN x ELSE u_wr[k]]
    /\ UNCHANGED << PDE, WAVESPEED, dx, num_zones, rk_param, dt, u_rk, u_rd,
                    u_rd2, u_wr2, done, rlog, wlog, mem0, arg_ul, arg_ur, fnum >>

Return ==
    /\ pc = "loop"
    /\ done = FOR_EACH_1D(num_zones)
    /\ pc' = "returned"
    /\ UNCHANGED << PDE, WAVESPEED, dx, num_zones, rk_param, dt, u_rk, u_rd,
                    u_wr, u_rd2, u_wr2, done, rlog, wlog, mem0, arg_ul, arg_ur,
                    fnum >>

\* The loop run with one index too many (the count of zones taken to include
\* a guard zone).
scdg_1d_advance_rk_guard ==
    \/ \E i \in FOR_EACH_1D(num_zones + ng) : ZoneUpdate(i)
    \/ \E i \in FOR_EACH_1D(num_zones + ng) : OutOfBounds(i)
    \/ Return

scdg_1d_advance_rk ==
    \/ \E i \in FOR_EACH_1D(num_zones) : ZoneUpdate(i)
    \/ \E i \in FOR_EACH_1D(num_zones) : OutOfBounds(i)
    \/ Return

Next == scdg_1d_advance_rk

Spec == Init /\ [][Next]_vars

----------------------------------------------------------------------------
(* Two calls side by side, on inputs that agree everywhere except in the    *)
(* read-state of one zone                                                   *)

Other(v) == CHOOSE x \in ZoneVals : x # v

InitPair ==
    \E nz \in 1 .. MaxZones, pw \in { << 0, One >>, << 0, Num(-1) >> } :
        \E zones \in Zones(nz), j \in 2 .. nz + 2 :
            /\ Call(pw, Zero, << One, One >>, nz, zones,
                    Shape(nz), Shape(nz), Shape(nz))
            /\ u_rd2 = Buffer([zones EXCEPT ![j] = Other(zones[j])], Shape(nz))
            /\ u_wr2 = Unwritten(Shape(nz))

PairUpdate(i) ==
    /\ Body(i)
    /\ u_wr2' = Store(u_wr2, uwr(i), ZoneModes(u_rk, u_rd2, i))

NextPair ==
    \/ \E i \in FOR_EACH_1D(num_zones) : PairUpdate(i)
    \/ Return

SpecPair == InitPair /\ [][NextPair]_vars

----------------------------------------------------------------------------
(* upwind called on its own *)

MaxArg == 3

ArgVals == { Num(v) : v \in -MaxArg .. MaxArg } \cup { Half, Neg(Half) }

InitUpwind ==
    /\ \E pw \in PdeWs \cup { << 0, Zero >>, << 0, Num(2) >> } :
          PDE = pw[1] /\ WAVESPEED = pw[2]
    /\ arg_ul \in ArgVals /\ arg_ur \in ArgVals
    /\ fnum = Zero
    /\ pc = "pure"
    /\ dx = One /\ dt = One /\ rk_param = Zero /\ num_zones = 0
    /\ u_rk = << >> /\ u_rd = << >> /\ u_wr = << >>
    /\ u_rd2 = << >> /\ u_wr2 = << >>
    /\ mem0 = [rk |-> << >>, rd |-> << >>, wr |-> << >>]
    /\ done = {} /\ rlog = {} /\ wlog = {}

ApplyUpwind ==
    /\ pc = "pure"
    /\ fnum' = upwind(arg_ul, arg_ur)
    /\ pc' = "applied"
    /\ UNCHANGED << PDE, WAVESPEED, dx, num_zones, rk_param, dt, u_rk, u_rd,
                    u_wr, u_rd2, u_wr2, done, rlog, wlog, mem0, arg_ul, arg_ur >>

NextUpwind == ApplyUpwind

SpecUpwind == InitUpwind /\ [][NextUpwind]_vars

----------------------------------------------------------------------------
(* Properties *)

\* The modes of zone z of a buffer.
ZoneT(buf, z) == << buf[NPOLY * z], buf[NPOLY * z + 1], buf[NPOLY * z + 2] >>

\* num_zones >= 0 and the three buffers have (num_zones + 2) * NPOLY entries.
ShapeOK ==
    /\ num_zones >= 0
    /\ BufLen(mem0.rk) = Shape(num_zones)
    /\ BufLen(mem0.rd) = Shape(num_zones)
    /\ BufLen(mem0.wr) = Shape(num_zones)

\* The entries of the physical zones, zone indices 1 .. num_zones.
Physical == NPOLY * ng .. NPOLY * (num_zones + ng) - 1

\* C1: with num_zones >= 0 and three buffers of (num_zones+2)*NPOLY entries,
\* only entries of the write buffer in the physical zones can differ from
\* their values before the call: the read-state buffer, the snapshot buffer
\* and both guard zones of the write buffer are as they were.
C1_Frame ==
    (ShapeOK /\ pc \in { "loop", "returned", "ub" }) =>
        /\ pc # "ub"
        /\ u_rd = mem0.rd
        /\ u_rk = mem0.rk
        /\ DOMAIN u_wr = DOMAIN mem0.wr
        /\ \A k \in DOMAIN u_wr : u_wr[k] # mem0.wr[k] => k \in Physical

C1_Witness ==
    /\ ShapeOK /\ pc = "returned" /\ num_zones >= 2
    /\ \A k \in Physical : u_wr[k] # mem0.wr[k]
    /\ \A k \in DOMAIN u_wr \ Physical : u_wr[k] = mem0.wr[k]

\* The invalid configurations of the contract.
InvalidConfig ==
    \/ PDE \notin { 0, 1 }
    \/ Sgn(dx) <= 0
    \/ Sgn(dt) <= 0
    \/ Sgn(rk_param) < 0 \/ Sgn(Sub(One, rk_param)) < 0
    \/ num_zones < 0
    \/ BufLen(mem0.rk) < Shape(num_zones)
    \/ BufLen(mem0.rd) < Shape(num_zones)
    \/ BufLen(mem0.wr) < Shape(num_zones)

\* C2: a call with an invalid configuration is rejected before the per-zone
\* loop starts: no loop body runs, no entry of the write buffer changes, no
\* index outside a buffer is addressed, and the call does not return normally.
C2_Rejected ==
    (InvalidConfig /\ pc \in { "loop", "returned", "ub" }) =>
        /\ done = {}
        /\ u_wr = mem0.wr
        /\ pc # "ub"
        /\ pc # "returned"

Periodic(rd) ==
    /\ ZoneT(rd, 0) = ZoneT(rd, num_zones)
    /\ ZoneT(rd, num_zones + 1) = ZoneT(rd, 1)

RECURSIVE Mass(_, _)
Mass(buf, z) ==
    IF z = 0 THEN Zero ELSE Add(Mass(buf, z - 1), Mul(buf[NPOLY * z], dx))

\* C4: with periodic guard data in the read buffer, a call with rk_param = 0
\* leaves the sum over the physical zones of (mode-0 coefficient * dx) in the
\* write buffer equal to that sum in the read buffer.
C4_Conservation ==
    (ShapeOK /\ num_zones >= 1 /\ pc = "returned" /\ rk_param = Zero
        /\ Periodic(mem0.rd)) =>
        Mass(u_wr, num_zones) = Mass(mem0.rd, num_zones)

C4_Witness ==
    /\ ShapeOK /\ num_zones >= 2 /\ pc = "returned" /\ rk_param = Zero
    /\ Periodic(mem0.rd)
    /\ u_wr[NPOLY * 1] # mem0.rd[NPOLY * 1]
    /\ u_wr[NPOLY * 2] # mem0.rd[NPOLY * 2]

\* C5: for rk_param = 1, every mode of every physical zone the call has
\* written equals the corresponding mode of the snapshot buffer exactly.
C5_BlendIdentity ==
    (ShapeOK /\ rk_param = One /\ pc \in { "loop", "returned" }) =>
        \A i \in done : ZoneT(u_wr, i + ng) = ZoneT(mem0.rk, i + ng)

C5_Witness ==
    /\ ShapeOK /\ rk_param = One /\ pc = "returned" /\ num_zones >= 2
    /\ \A i \in FOR_EACH_1D(num_zones) :
          /\ ZoneT(u_wr, i + ng) = ZoneT(mem0.rk, i + ng)
          /\ ZoneT(u_wr, i + ng) # ZoneT(mem0.wr, i + ng)

\* Every zone of the read buffer, guard zones included, is (c, 0, 0).
Uniform(rd) ==
    \A z \in 0 .. num_zones + 1 : ZoneT(rd, z) = << rd[0], Zero, Zero >>

UniformCall ==
    /\ ShapeOK /\ ~InvalidConfig /\ pc \in { "loop", "returned" }
    /\ PDE = 0 /\ WAVESPEED = One /\ rk_param = Zero
    /\ Uniform(mem0.rd)

\* C6 as stated: for advection with wavespeed 1 and rk_param = 0, a uniform
\* read buffer (c, 0, 0) is a fixed point: every zone written is identical to
\* its read-state.
C6_FixedPoint ==
    UniformCall => \A i \in done : ZoneT(u_wr, i + ng) = ZoneT(mem0.rd, i + ng)

\* What the tables make of mode 1 of a uniform state c: the volume term
\* c * pp[1][n] * w[n] summed over the quadrature points, less the surface
\* term 2 * c * pfr[1], times dt / dx.  The tabulated weights sum to
\* 2.000000000000001.
Drift(c) ==
    Div(Mul(Mul(Mul(c, At(At(pp, 1), 0)),
                Sub(Add(Add(At(w, 0), At(w, 1)), At(w, 2)), Num(2))), dt), dx)

\* C6 amended: modes 0 and 2 of every zone written are identical to the
\* read-state; mode 1 is written as c * 1.732050807568877 * (w0 + w1 + w2 - 2)
\* * dt / dx, which is zero only for c = 0.
C6_FixedPointUpToWeights ==
    UniformCall =>
        \A i \in done :
            /\ u_wr[NPOLY * (i + ng)] = mem0.rd[NPOLY * (i + ng)]
            /\ u_wr[NPOLY * (i + ng) + 2] = mem0.rd[NPOLY * (i + ng) + 2]
            /\ u_wr[NPOLY * (i + ng) + 1] = Drift(mem0.rd[0])
            /\ (u_wr[NPOLY * (i + ng) + 1] = Zero) <=> (mem0.rd[0] = Zero)

C6_Witness ==
    /\ UniformCall /\ pc = "returned" /\ num_zones >= 2
    /\ mem0.rd[0] = Num(2)
    /\ u_wr[NPOLY * ng] = Num(2)
    /\ u_wr[NPOLY * ng + 1] # Zero
    /\ u_wr[NPOLY * ng + 2] = Zero

\* C7: Burgers upwind: flux(ul) = ul*ul/2 when both states are strictly
\* positive, flux(ur) = ur*ur/2 when both are strictly negative, exactly 0
\* otherwise (also when either state is zero); upwind(2,3) = 2,
\* upwind(-3,-1) = 0.5, upwind(-1,1) = 0.
C7_BurgersUpwind ==
    (pc = "applied" /\ PDE = 1) =>
        /\ (Sgn(arg_ul) = 1 /\ Sgn(arg_ur) = 1) =>
              Mul(Num(2), fnum) = Mul(arg_ul, arg_ul)
        /\ (Sgn(arg_ul) = -1 /\ Sgn(arg_ur) = -1) =>
              Mul(Num(2), fnum) = Mul(arg_ur, arg_ur)
        /\ (Sgn(arg_ul) * Sgn(arg_ur) # 1) => fnum = Zero
        /\ (arg_ul = Num(2) /\ arg_ur = Num(3)) => fnum = Num(2)
        /\ (arg_ul = Num(-3) /\ arg_ur = Num(-1)) => fnum = Half
        /\ (arg_ul = Num(-1) /\ arg_ur = Num(1)) => fnum = Zero

C7_Witness ==
    /\ pc = "applied" /\ PDE = 1
    /\ arg_ul = Num(-3) /\ arg_ur = Num(-1) /\ fnum = Half

\* C8: a call with num_zones = 0 completes without error, stores to no entry
\* of the write buffer and loads no buffer entry.
C8_ZeroZones ==
    (num_zones = 0 /\ pc \in { "loop", "returned", "ub" }) =>
        /\ pc # "ub"
        /\ pc = "loop" => ENABLED Return
        /\ done = {} /\ rlog = {} /\ wlog = {}
        /\ u_wr = mem0.wr

C8_Witness ==
    /\ num_zones = 0 /\ pc = "returned" /\ BufLen(u_wr) = Shape(0)
    /\ u_wr = mem0.wr /\ rlog = {}

\* C9: advection upwind: the direction is decided by the sign of the global
\* wavespeed alone: wavespeed * ul when wavespeed > 0, wavespeed * ur when
\* wavespeed <= 0.
C9_AdvectionUpwind ==
    (pc = "applied" /\ PDE = 0) =>
        fnum = IF Sgn(WAVESPEED) > 0 THEN Mul(WAVESPEED, arg_ul)
                                     ELSE Mul(WAVESPEED, arg_ur)

C9_Witness ==
    /\ pc = "applied" /\ PDE = 0 /\ WAVESPEED = Num(-1)
    /\ arg_ul = Num(2) /\ arg_ur = Num(-3) /\ fnum = Num(3)

\* C10: for advection with wavespeed > 0, two calls whose read buffers agree
\* in zones i-1 and i write identical modes for zone i, whatever the
\* read-state of zone i+1: the right neighbour, and so the right guard zone,
\* never influences a written value.
C10_UpwindCausality ==
    (pc \in { "loop", "returned" } /\ PDE = 0 /\ Sgn(WAVESPEED) > 0) =>
        \A i \in done :
            (/\ ZoneT(u_rd, i + ng - 1) = ZoneT(u_rd2, i + ng - 1)
             /\ ZoneT(u_rd, i + ng) = ZoneT(u_rd2, i + ng)) =>
                ZoneT(u_wr, i + ng) = ZoneT(u_wr2, i + ng)

C10_Witness ==
    /\ pc = "returned" /\ PDE = 0 /\ Sgn(WAVESPEED) > 0
    /\ ZoneT(u_rd, num_zones + 1) # ZoneT(u_rd2, num_zones + 1)
    /\ u_wr = u_wr2
    /\ ZoneT(u_wr, num_zones) # ZoneT(mem0.wr, num_zones)

====
